---- MODULE Spec2Model ----
(***************************************************************************)
(* The to-do web application of src/app.py: one SQLite table `todos` and   *)
(* the Flask route handlers index, add_todo, complete_todo, delete_todo    *)
(* and health.                                                             *)
(*                                                                         *)
(* Spec     : requests are handled one after another (each action is one   *)
(*            whole handler: connect, one statement, commit, close,        *)
(*            response).                                                   *)
(* ConcSpec : a fixed set of workers handles one request each, step by     *)
(*            step (connect; execute; commit; close and respond), each on  *)
(*            its own connection.                                          *)
(***************************************************************************)
EXTENDS Integers, Sequences, FiniteSets, TLC

\* ---------------------------------------------------------------- bounds
MaxAdds == 3        \* INSERTs per run (caps the AUTOINCREMENT counter)
MaxClock == 1       \* seconds CURRENT_TIMESTAMP can advance
NumWorkers == 2     \* concurrent requests in ConcSpec
MaxInitRows == 2    \* rows already in the table when ConcSpec starts

\* ------------------------------------------------------- request inputs
\* Values a client can send in the form field `task`.
Texts == {"", "buy milk", "call bob"}

\* request.form of POST /add: the field `task` may be missing altogether.
Forms == UNION {[D -> Texts] : D \in SUBSET {"task"}}

DigitChars == <<"0", "1", "2", "3", "4", "5", "6", "7", "8", "9">>

RECURSIVE ToDigits(_)
\* The decimal numeral of n >= 0, as a client writes it in a URL path.
ToDigits(n) ==
    IF n < 10 THEN <<DigitChars[n + 1]>>
    ELSE Append(ToDigits(n \div 10), DigitChars[(n % 10) + 1])

\* 2^63 - 1, the largest value of an SQLite INTEGER, and 2^63.
Int64MaxDigits ==
    <<"9", "2", "2", "3", "3", "7", "2", "0", "3", "6",
      "8", "5", "4", "7", "7", "5", "8", "0", "7">>

Int64OverflowDigits ==
    <<"9", "2", "2", "3", "3", "7", "2", "0", "3", "6",
      "8", "5", "4", "7", "7", "5", "8", "0", "8">>

\* Path segments a client can put in /complete/<id> and /delete/<id>: a
\* negative number, 0, every id an add can assign, and 2^63.
PathSegments ==
    {<<"-", "1">>} \cup {ToDigits(n) : n \in 0 .. MaxAdds} \cup {Int64OverflowDigits}

\* ------------------------------------------------------------ responses
Redirect == [status |-> 302, location |-> "/"]

BadRequest == [status |-> 400]

NotFound == [status |-> 404]

InternalServerError == [status |-> 500]

RenderIndex(listing) == [status |-> 200, todos |-> listing]

HealthBody(now) == [status |-> 200, body |-> "healthy", timestamp |-> now]

NoResponse == [status |-> 0]

\* ----------------------------------------------------------------- state
VARIABLES
    todos,            \* the rows of table todos (committed)
    sqlite_sequence,  \* AUTOINCREMENT bookkeeping: largest id ever assigned
    clock,            \* CURRENT_TIMESTAMP, in whole seconds
    request,          \* Spec: the request handled last
    response,         \* Spec: the response to it
    before,           \* Spec: history, the table when that request arrived
    created,          \* history: ids in the order their INSERTs ran
    pc,               \* ConcSpec: each worker's position in its handler
    wreq,             \* ConcSpec: each worker's request
    wresp,            \* ConcSpec: each worker's response
    pending,          \* ConcSpec: each connection's uncommitted table image
    stamp,            \* ConcSpec: CURRENT_TIMESTAMP seen by each statement
    reserved,         \* ConcSpec: connection holding the write lock (0: none)
    initial           \* ConcSpec: history, table and counter at the start

vars == <<todos, sqlite_sequence, clock, request, response, before, created,
          pc, wreq, wresp, pending, stamp, reserved, initial>>

seqVars == <<request, response, before>>

concVars == <<pc, wreq, wresp, pending, stamp, reserved, initial>>

\* ------------------------------------------------------- the table todos
Ids(tbl) == {r.id : r \in tbl}

MaxOf(S) == IF S = {} THEN 0 ELSE CHOOSE m \in S : \A x \in S : x <= m

\* Plain INTEGER PRIMARY KEY (no AUTOINCREMENT): largest rowid in use + 1.
NextIdRowidOnly(tbl, seqno) == MaxOf(Ids(tbl)) + 1

\* id INTEGER PRIMARY KEY AUTOINCREMENT: one more than the largest id the
\* table has ever held (sqlite_sequence), also after that row is deleted.
NextId(tbl, seqno) == MaxOf(Ids(tbl) \cup {seqno}) + 1

\* Column defaults of CREATE TABLE todos: completed 0, created_at now.
NewRow(id, task, now) ==
    [id |-> id, task |-> task, completed |-> FALSE, created_at |-> now]

\* INSERT OR IGNORE under a UNIQUE(task) constraint.
InsertUnique(tbl, seqno, task, now) ==
    IF \E r \in tbl : r.task = task THEN tbl
    ELSE tbl \cup {[id |-> MaxOf(Ids(tbl) \cup {seqno}) + 1, task |-> task,
                    completed |-> FALSE, created_at |-> now]}

\* INSERT INTO todos (task) VALUES (?)
Insert(tbl, seqno, task, now) ==
    tbl \cup {NewRow(NextId(tbl, seqno), task, now)}

\* UPDATE todos SET completed = 1   (WHERE clause lost)
UpdateAll(tbl, todo_id) == {[r EXCEPT !.completed = TRUE] : r \in tbl}

\* UPDATE todos SET completed = NOT completed WHERE id = ?
UpdateToggle(tbl, todo_id) ==
    {IF r.id = todo_id THEN [r EXCEPT !.completed = ~r.completed] ELSE r : r \in tbl}

\* UPDATE todos SET completed = 1 WHERE id = ?
Update(tbl, todo_id) ==
    {IF r.id = todo_id THEN [r EXCEPT !.completed = TRUE] ELSE r : r \in tbl}

\* DELETE FROM todos WHERE id <= ?
DeleteUpTo(tbl, todo_id) == {r \in tbl : r.id > todo_id}

\* DELETE FROM todos WHERE id = ?
Delete(tbl, todo_id) == {r \in tbl : r.id # todo_id}

\* SELECT * FROM todos ORDER BY created_at DESC: every row once, sorted by
\* created_at; SQL leaves the order of rows with equal created_at open, so
\* every such order is a possible result.
SelectOrdered(tbl) ==
    {s \in [1 .. Cardinality(tbl) -> tbl] :
        /\ \A i, j \in 1 .. Cardinality(tbl) : i # j => s[i] # s[j]
        /\ \A i, j \in 1 .. Cardinality(tbl) :
              i < j => s[i].created_at >= s[j].created_at}

\* ---------------------------------------------------------- the handlers
\* `if task:` on a present field that is not checked.
TruthyAlways(task) == TRUE

\* `if task:` : a Python str is true iff it is not empty.
Truthy(task) == task # ""

\* The <int:todo_id> converter of the routes matches digits only: a
\* segment with a sign does not match, and the handler is never called.
IntConverter(segment) ==
    /\ segment # <<>>
    /\ \A i \in DOMAIN segment : \E d \in DOMAIN DigitChars : DigitChars[d] = segment[i]

DigitValue(c) == (CHOOSE d \in DOMAIN DigitChars : DigitChars[d] = c) - 1

RECURSIVE StripZeros(_)
StripZeros(digits) ==
    IF Len(digits) > 1 /\ Head(digits) = "0" THEN StripZeros(Tail(digits)) ELSE digits

RECURSIVE LexLeq(_, _)
\* a <= b for numerals of the same length.
LexLeq(a, b) ==
    IF a = <<>> THEN TRUE
    ELSE IF DigitValue(Head(a)) # DigitValue(Head(b))
    THEN DigitValue(Head(a)) < DigitValue(Head(b))
    ELSE LexLeq(Tail(a), Tail(b))

\* The converter hands int(segment), of any size, to the handler; binding
\* it to `?` succeeds iff it fits SQLite's signed 64-bit INTEGER, otherwise
\* conn.execute raises OverflowError.
FitsInt64(segment) ==
    LET d == StripZeros(segment)
    IN \/ Len(d) < Len(Int64MaxDigits)
       \/ Len(d) = Len(Int64MaxDigits) /\ LexLeq(d, Int64MaxDigits)

RECURSIVE ToInt(_)
\* int(segment) of a segment the converter matched.
ToInt(segment) ==
    IF segment = <<>> THEN 0
    ELSE ToInt(SubSeq(segment, 1, Len(segment) - 1)) * 10 + DigitValue(segment[Len(segment)])

SeqIdle ==
    /\ request = [op |-> "none"]
    /\ response = NoResponse
    /\ before = {}

ConcIdle ==
    /\ pc = <<>>
    /\ wreq = <<>>
    /\ wresp = <<>>
    /\ pending = <<>>
    /\ stamp = <<>>
    /\ reserved = 0
    /\ initial = [todos |-> {}, sqlite_sequence |-> 0]

\* init_db() on a fresh /data/todo.db, then app.run().
Init ==
    /\ todos = {}
    /\ sqlite_sequence = 0
    /\ clock = 0
    /\ created = <<>>
    /\ SeqIdle
    /\ ConcIdle

\* The wall clock reaches the next second.
Tick ==
    /\ clock < MaxClock
    /\ clock' = clock + 1
    /\ UNCHANGED <<todos, sqlite_sequence, request, response, before, created>>
    /\ UNCHANGED concVars

\* GET /
index ==
    /\ \E listing \in SelectOrdered(todos) :
          response' = RenderIndex(listing)
    /\ request' = [op |-> "index"]
    /\ before' = todos
    /\ UNCHANGED <<todos, sqlite_sequence, clock, created>>
    /\ UNCHANGED concVars

\* POST /add
add_todo ==
    \E form \in Forms :
        /\ request' = [op |-> "add", form |-> form]
        /\ before' = todos
        /\ IF "task" \notin DOMAIN form
           THEN \* request.form['task'] raises BadRequestKeyError: 400
                /\ response' = BadRequest
                /\ UNCHANGED <<todos, sqlite_sequence, created>>
           ELSE IF Truthy(form["task"])
           THEN /\ sqlite_sequence < MaxAdds
                /\ todos' = Insert(todos, sqlite_sequence, form["task"], clock)
                /\ sqlite_sequence' = MaxOf({sqlite_sequence, NextId(todos, sqlite_sequence)})
                /\ created' = Append(created, NextId(todos, sqlite_sequence))
                /\ response' = Redirect
           ELSE /\ response' = Redirect
                /\ UNCHANGED <<todos, sqlite_sequence, created>>
        /\ UNCHANGED clock
        /\ UNCHANGED concVars

\* GET /complete/<int:todo_id>
complete_todo ==
    \E segment \in PathSegments :
        /\ request' = [op |-> "complete", segment |-> segment]
        /\ before' = todos
        /\ IF ~IntConverter(segment)
           THEN \* no route matches: 404, the handler does not run
                /\ response' = NotFound
                /\ UNCHANGED todos
           ELSE IF ~FitsInt64(segment)
           THEN \* conn.execute raises OverflowError, never caught: 500
                /\ response' = InternalServerError
                /\ UNCHANGED todos
           ELSE /\ todos' = Update(todos, ToInt(segment))
                /\ response' = Redirect
        /\ UNCHANGED <<sqlite_sequence, clock, created>>
        /\ UNCHANGED concVars

\* GET /delete/<int:todo_id>
delete_todo ==
    \E segment \in PathSegments :
        /\ request' = [op |-> "delete", segment |-> segment]
        /\ before' = todos
        /\ IF ~IntConverter(segment)
           THEN \* no route matches: 404, the handler does not run
                /\ response' = NotFound
                /\ UNCHANGED todos
           ELSE IF ~FitsInt64(segment)
           THEN \* conn.execute raises OverflowError, never caught: 500
                /\ response' = InternalServerError
                /\ UNCHANGED todos
           ELSE /\ todos' = Delete(todos, ToInt(segment))
                /\ response' = Redirect
        /\ UNCHANGED <<sqlite_sequence, clock, created>>
        /\ UNCHANGED concVars

\* GET /health
health ==
    /\ request' = [op |-> "health"]
    /\ before' = todos
    /\ response' = HealthBody(clock)
    /\ UNCHANGED <<todos, sqlite_sequence, clock, created>>
    /\ UNCHANGED concVars

Next ==
    \/ Tick
    \/ index
    \/ add_todo
    \/ complete_todo
    \/ delete_todo
    \/ health

Spec == Init /\ [][Next]_vars

\* ------------------------------------------------- concurrent requests
Workers == 1 .. NumWorkers

\* Ids the concurrent requests name: each initial row, and the id the next
\* INSERT gets (in no row unless a concurrent add has put it there).
ConcIds == 1 .. (MaxInitRows + 1)

ConcRequests ==
    {[op |-> "add", form |-> f] : f \in Forms}
        \cup {[op |-> o, segment |-> ToDigits(i)] : o \in {"complete", "delete"}, i \in ConcIds}

\* Tables the program can hold when the requests arrive: k adds of the
\* first second, some of them completed since.
InitTables ==
    UNION {{{[id |-> i, task |-> "buy milk", completed |-> c[i], created_at |-> 0] : i \in 1 .. k} :
               c \in [1 .. k -> BOOLEAN]} : k \in 0 .. MaxInitRows}

\* True iff handling req runs its statement: the route matches, the form
\* field is there and not empty, the id can be bound.
RunsStatement(req) ==
    IF req.op = "add"
    THEN "task" \in DOMAIN req.form /\ Truthy(req.form["task"])
    ELSE IntConverter(req.segment) /\ FitsInt64(req.segment)

\* The response to a request that runs no statement.
ResponseWithoutStatement(req) ==
    IF req.op = "add"
    THEN IF "task" \in DOMAIN req.form THEN Redirect ELSE BadRequest
    ELSE IF IntConverter(req.segment) THEN InternalServerError ELSE NotFound

\* The one statement of each handler, applied to table and counter.
Execute(db, req, now) ==
    CASE req.op = "add" ->
            [todos |-> Insert(db.todos, db.sqlite_sequence, req.form["task"], now),
             sqlite_sequence |->
                 MaxOf({db.sqlite_sequence, NextId(db.todos, db.sqlite_sequence)})]
      [] req.op = "complete" ->
            [db EXCEPT !.todos = Update(db.todos, ToInt(req.segment))]
      [] req.op = "delete" ->
            [db EXCEPT !.todos = Delete(db.todos, ToInt(req.segment))]

\* A connection that writes without taking the database's write lock.
CanReserveUnlocked(holder) == TRUE

\* conn.execute of a writing statement takes SQLite's RESERVED lock, which
\* one connection at a time can hold; the others wait for it.
CanReserve(holder) == holder = 0

ConcInit ==
    /\ todos \in InitTables
    /\ sqlite_sequence = Cardinality(todos)
    /\ clock = 0
    /\ created = [i \in 1 .. Cardinality(todos) |-> i]
    /\ SeqIdle
    /\ pc = [w \in Workers |-> "start"]
    /\ wreq \in [Workers -> ConcRequests]
    /\ wresp = [w \in Workers |-> NoResponse]
    /\ pending = [w \in Workers |-> [todos |-> {}, sqlite_sequence |-> 0]]
    /\ stamp = [w \in Workers |-> 0]
    /\ reserved = 0
    /\ initial = [todos |-> todos, sqlite_sequence |-> sqlite_sequence]

\* The wall clock reaches the next second while requests are in flight.
conc_tick ==
    /\ clock < MaxClock
    /\ \E w \in Workers : pc[w] # "done"
    /\ clock' = clock + 1
    /\ UNCHANGED <<todos, sqlite_sequence, created>>
    /\ UNCHANGED seqVars
    /\ UNCHANGED concVars

\* A request that never runs a statement: 400 for the missing field, or
\* the redirect for an empty text.
conc_no_statement(w) ==
    /\ pc[w] = "start"
    /\ ~RunsStatement(wreq[w])
    /\ wresp' = [wresp EXCEPT ![w] = ResponseWithoutStatement(wreq[w])]
    /\ pc' = [pc EXCEPT ![w] = "done"]
    /\ UNCHANGED <<todos, sqlite_sequence, clock, created>>
    /\ UNCHANGED seqVars
    /\ UNCHANGED <<wreq, pending, stamp, reserved, initial>>

\* get_db_connection(); conn.execute(...): the statement runs in this
\* connection's transaction, on the committed table, under the write lock.
conc_execute(w) ==
    /\ pc[w] = "start"
    /\ RunsStatement(wreq[w])
    /\ CanReserve(reserved)
    /\ reserved' = w
    /\ stamp' = [stamp EXCEPT ![w] = clock]
    /\ pending' = [pending EXCEPT ![w] =
           Execute([todos |-> todos, sqlite_sequence |-> sqlite_sequence], wreq[w], clock)]
    /\ pc' = [pc EXCEPT ![w] = "executed"]
    /\ UNCHANGED <<todos, sqlite_sequence, clock, created>>
    /\ UNCHANGED seqVars
    /\ UNCHANGED <<wreq, wresp, initial>>

\* conn.commit(); conn.close(); return redirect(url_for('index'))
conc_commit(w) ==
    /\ pc[w] = "executed"
    /\ todos' = pending[w].todos
    /\ sqlite_sequence' = pending[w].sqlite_sequence
    /\ created' = IF wreq[w].op = "add"
                  THEN Append(created, MaxOf(Ids(pending[w].todos)))
                  ELSE created
    /\ reserved' = IF reserved = w THEN 0 ELSE reserved
    /\ wresp' = [wresp EXCEPT ![w] = Redirect]
    /\ pc' = [pc EXCEPT ![w] = "done"]
    /\ UNCHANGED clock
    /\ UNCHANGED seqVars
    /\ UNCHANGED <<wreq, pending, stamp, initial>>

ConcNext ==
    \/ conc_tick
    \/ \E w \in Workers : conc_no_statement(w)
    \/ \E w \in Workers : conc_execute(w)
    \/ \E w \in Workers : conc_commit(w)

ConcSpec == ConcInit /\ [][ConcNext]_vars

\* =================================================== properties of Spec
RowOf(tbl, id) == CHOOSE r \in tbl : r.id = id

\* The last request was GET /<op>/<id> with an id that reached the handler.
Routed(op) ==
    /\ request.op = op
    /\ IntConverter(request.segment)

\* The last request was GET /<op>/<id> with the id of a row of tbl.
Targets(op, tbl) ==
    /\ Routed(op)
    /\ FitsInt64(request.segment)
    /\ ToInt(request.segment) \in Ids(tbl)

RequestedId == ToInt(request.segment)

\* Position of an id in the order of creation.
CreatedPos(id) == CHOOSE k \in DOMAIN created : created[k] = id

AddedText ==
    /\ request.op = "add"
    /\ "task" \in DOMAIN request.form
    /\ request.form["task"] # ""

\* C1: the page GET / returns lists the tasks strictly newest-first by
\* creation: a task added later stands before every task added earlier,
\* whatever created_at values the adds received.
C1_ListingNewestFirst ==
    request.op = "index" =>
        \A i, j \in DOMAIN response.todos :
            i < j => CreatedPos(response.todos[i].id) > CreatedPos(response.todos[j].id)

\* C2: POST /add without a `task` field leaves the table unchanged and is
\* answered with the redirect to `/`.
C2_MissingFieldIsNoOp ==
    (request.op = "add" /\ "task" \notin DOMAIN request.form) =>
        (todos = before /\ response = Redirect)

\* C3: POST /add with a non-empty text adds exactly one row, with that text
\* and completed = false, and leaves every earlier row as it was, also when
\* the text is that of an existing task.
C3_AddInsertsOneRow ==
    AddedText =>
        /\ Cardinality(todos) = Cardinality(before) + 1
        /\ before \subseteq todos
        /\ \A r \in todos \ before :
              /\ r.task = request.form["task"]
              /\ r.completed = FALSE
              /\ r.id \notin Ids(before)

C3_Witness ==
    /\ AddedText
    /\ \E r \in before : r.task = request.form["task"]
    /\ \E r \in before : r.task # request.form["task"] /\ r.completed

\* C4: GET /complete/<id> for an id in the table sets completed on the row
\* with that id and changes nothing else: no other row, no other field of
\* that row, and not the number of rows.
C4_CompleteOnlyThatRow ==
    Targets("complete", before) =>
        /\ Cardinality(todos) = Cardinality(before)
        /\ Ids(todos) = Ids(before)
        /\ \A r \in before : r.id # RequestedId => r \in todos
        /\ \E r \in todos :
              /\ r.id = RequestedId
              /\ r.completed = TRUE
              /\ r.task = RowOf(before, RequestedId).task
              /\ r.created_at = RowOf(before, RequestedId).created_at

C4_Witness ==
    /\ Targets("complete", before)
    /\ ~RowOf(before, RequestedId).completed
    /\ \E r \in before : r.id # RequestedId /\ ~r.completed

\* C5: GET /delete/<id> for an id in the table removes the row with that id
\* and no other: one row fewer, every other row unchanged.
C5_DeleteOnlyThatRow ==
    Targets("delete", before) =>
        /\ Cardinality(todos) = Cardinality(before) - 1
        /\ RequestedId \notin Ids(todos)
        /\ todos \subseteq before
        /\ \A r \in before : r.id # RequestedId => r \in todos

C5_Witness ==
    /\ Targets("delete", before)
    /\ \E r, s \in before : r.id < RequestedId /\ RequestedId < s.id

\* C6: for every id that reaches the handler and is not in the table,
\* GET /complete/<id> and GET /delete/<id> leave the table unchanged and do
\* not fail: the answer is the redirect to `/`, as for an id that exists.
C6_AbsentIdIsNoOp ==
    ((Routed("complete") \/ Routed("delete")) /\ ~Targets(request.op, before)) =>
        (todos = before /\ response = Redirect)

\* C7: ids are never reused: every id an add assigns is greater than every
\* id an earlier add assigned, whether or not that task still exists.
C7_IdsNeverReused ==
    \A i, j \in DOMAIN created : i < j => created[i] < created[j]

C7_Witness ==
    /\ AddedText
    /\ before = {}
    /\ todos # {}
    /\ Len(created) >= 2

\* C8: from one state to the next, a task that still exists keeps its text
\* and created_at, and its completed never goes from true back to false.
C8_CompletedOnlyRises ==
    [][\A r \in todos : \A s \in todos' :
          s.id = r.id =>
              /\ s.task = r.task
              /\ s.created_at = r.created_at
              /\ r.completed => s.completed]_vars

C8_Witness ==
    /\ Targets("complete", before)
    /\ RowOf(before, RequestedId).completed
    /\ RowOf(todos, RequestedId).completed

\* C9: POST /add with the field `task` present but empty inserts nothing,
\* modifies nothing and is answered with the redirect to `/`.
C9_EmptyTextIsNoOp ==
    (request.op = "add" /\ "task" \in DOMAIN request.form /\ request.form["task"] = "") =>
        (todos = before /\ response = Redirect)

C9_Witness ==
    /\ request.op = "add"
    /\ "task" \in DOMAIN request.form
    /\ request.form["task"] = ""
    /\ before # {}
    /\ response = Redirect

\* =============================================== properties of ConcSpec
AllDone == \A w \in Workers : pc[w] = "done"

RECURSIVE SerialRun(_, _)
\* The requests of the workers in `order`, handled one after another.
SerialRun(db, order) ==
    IF order = <<>> THEN db
    ELSE LET w == Head(order)
             next == IF RunsStatement(wreq[w]) THEN Execute(db, wreq[w], stamp[w]) ELSE db
         IN SerialRun(next, Tail(order))

Orders == {o \in [1 .. NumWorkers -> Workers] : \A i, j \in 1 .. NumWorkers : i # j => o[i] # o[j]}

Deletes(w, id) == wreq[w] = [op |-> "delete", segment |-> ToDigits(id)]

Completes(w, id) == wreq[w] = [op |-> "complete", segment |-> ToDigits(id)]

====
